---- MODULE Spec2Model ----
(***************************************************************************)
(* Model of the two Junos configuration modules, junos_firewall and        *)
(* junos_pbr: parameter validation, construction of one request per        *)
(* parameter set, and the locked load / commit-or-discard transaction of   *)
(* main(), together with the positional term naming of set_term_ele.       *)
(***************************************************************************)
EXTENDS Integers, Sequences, FiniteSets, TLC

\* ------------------------------------------------------------------ bounds
MaxItems == 3
MaxRuns == 2
MaxTerms == 11

\* ------------------------------------------------------------ value domains
None == "None"
Unbound == "Unbound"
Absent == "Absent"

Modules == {"junos_firewall", "junos_pbr"}
FilterNames == {"f1", "f2"}
TermLists == {"T1", "T2"}
Addresses == {"", "a1"}
NextHops == {None, "h1"}
InstanceName == "vrf1"
Keys == FilterNames \cup Addresses \cup {None}
Diffs == {"", "[edit]"}
\* the aggregate parameter when it is not supplied (the inputs hold no
\* supplied empty list)
NoAggregate == <<>>

VARIABLES
    mod,        \* which module's main() is running
    module,     \* AnsibleModule: params, aggregate, check_mode
    pc,         \* position of main()
    params,     \* to_param_list(module)
    requests,   \* requests built so far
    i,          \* index of the parameter set / request being processed
    diff,       \* local variable diff of main()
    result,     \* local variable result of main()
    err,        \* failure raised and not yet surfaced
    calls,      \* transport calls made by this invocation, in order
    lockHeld,   \* this invocation holds the configuration lock
    lastReply,  \* the diff the latest load_config of this invocation returned
    anyDiff,    \* some load_config of this invocation returned a non-empty diff
    staged,     \* candidate configuration of the device
    committed,  \* committed configuration of the device
    staged0,    \* candidate configuration when the invocation started
    committed0, \* committed configuration when the invocation started
    run,        \* number of the invocation
    previous,   \* outcome of the invocation before this one
    term,       \* set_term_ele: the term list
    ele,        \* set_term_ele: children appended under the filter element
    ti,         \* set_term_ele: loop index
    pass,       \* set_term_ele: which mapping of the same list is running
    ele1,       \* set_term_ele: the tree produced by the first mapping
    term0       \* set_term_ele: the term list as the caller gave it

mainVars == <<mod, module, pc, params, requests, i, diff, result, err, calls,
              lockHeld, lastReply, anyDiff, staged, committed, staged0, committed0, run,
              previous>>
termVars == <<term, ele, ti, pass, ele1, term0>>
vars == <<mod, module, pc, params, requests, i, diff, result, err, calls,
          lockHeld, lastReply, anyDiff, staged, committed, staged0, committed0, run,
          previous, term, ele, ti, pass, ele1, term0>>

\* ------------------------------------------------------------ parameter sets
Item(n, a, h, t, s) ==
    [name |-> n, address |-> a, next_hop |-> h, terms |-> t, state |-> s]

\* entries of the aggregate list: defaults removed, so state may be None
AggregateEntries(m) ==
    IF m = "junos_firewall"
    THEN {Item(n, None, None, t, s) :
            n \in FilterNames, t \in TermLists, s \in {None, "absent"}}
    ELSE {Item(None, a, h, None, s) :
            a \in Addresses, h \in NextHops, s \in {None, "absent"}}

\* top-level parameters when the singular identity field is supplied
SingleParams(m) ==
    IF m = "junos_firewall"
    THEN {Item(n, None, None, t, s) :
            n \in FilterNames, t \in TermLists, s \in {"present", "absent"}}
    ELSE {Item(InstanceName, a, h, None, s) :
            a \in Addresses, h \in NextHops, s \in {"present", "absent"}}

\* top-level parameters when the singular identity field is not supplied
DefaultParams(m) ==
    IF m = "junos_firewall"
    THEN Item(None, None, None, None, "present")
    ELSE Item(InstanceName, None, None, None, "present")

SeqsUpTo(S, n) == UNION {[1..k -> S] : k \in 1..n}

\* the identity field named by required_one_of / mutually_exclusive
Identity(m, p) == IF m = "junos_firewall" THEN p.name ELSE p.address

\* Python truth value of an optional string
Truthy(v) == v \notin {None, "", Unbound}

\* ------------------------------------------------- AnsibleModule, utilities
\* required_one_of = mutually_exclusive = [['aggregate', <identity>]]
CountTerms(m, am) ==
    (IF am.aggregate # NoAggregate THEN 1 ELSE 0)
    + (IF Identity(m, am.params) # None THEN 1 ELSE 0)

ArgumentsValid(m, am) == CountTerms(m, am) = 1

to_param_list(am) ==
    IF am.aggregate # NoAggregate THEN am.aggregate ELSE <<am.params>>

\* map_params_to_obj + map_obj_to_ele (+ set_term_ele for the firewall): the
\* request tree, reduced to the node it replaces and the content it gives it
RequestTree(m, item) ==
    [key   |-> Identity(m, item),
     value |-> IF item.state = "absent" THEN Absent
               ELSE IF m = "junos_firewall" THEN item.terms
               ELSE item.next_hop]

\* the device: a replace stages the tree, the diff compares the candidate
\* with the committed configuration
Replace(cfg, req) == [cfg EXCEPT ![req.key] = req.value]

get_diff(cand, comm) == IF cand # comm THEN "[edit]" ELSE ""

RECURSIVE ReplaceAll(_, _)
ReplaceAll(cfg, reqs) ==
    IF reqs = <<>> THEN cfg
    ELSE ReplaceAll(Replace(cfg, Head(reqs)), Tail(reqs))

EmptyConfig == [k \in Keys |-> Absent]

\* ------------------------------------------------------------------- main()
\* variant: the lock is taken before the requests are built
MainStepsLockFirst ==
    <<"validate", "lock", "build", "load", "decide", "unlock", "exit">>

\* the statements of main(), in program order
MainSteps ==
    <<"validate", "build", "lock", "load", "decide", "unlock", "exit">>

\* variant: only the loop over the requests is inside the with block
WithBodyLoopOnly == {"load"}

\* the statements inside "with locked_config(module):"
WithBody == {"load", "decide"}

After(p) ==
    LET k == CHOOSE n \in 1..Len(MainSteps) : MainSteps[n] = p
    IN  MainSteps[k + 1]

\* variant: no scoped release, a raise leaves main() at once
OnRaiseNoCleanup(p) == "failed"

\* where control goes when the statement at p raises
OnRaise(p) == IF p \in WithBody THEN "unlock" ELSE "failed"

\* "if param.get(key) is None: param[key] = module.params[key]"
Fallback(param, defaults) ==
    [key \in DOMAIN param |->
        IF param[key] = None THEN defaults[key] ELSE param[key]]

\* junos_pbr: "if not item['address'] and item['next_hop']" under state present
RequiredTogetherFails(m, item) ==
    /\ m = "junos_pbr"
    /\ item.state = "present"
    /\ ~Truthy(item.address)
    /\ Truthy(item.next_hop)

\* variant: an empty reply does not overwrite an earlier diff
AssignDiffLastNonEmpty(old, reply) == IF reply # "" THEN reply ELSE old

\* variant: the first diff is kept
AssignDiffKeepFirst(old, reply) == IF Truthy(old) THEN old ELSE reply

\* "diff = load_config(...)" inside the loop over the requests
AssignDiff(old, reply) == reply

\* variant: the check mode is ignored
ShouldCommitAlways(check_mode) == TRUE

\* variant: the negation is dropped
ShouldCommitInverted(check_mode) == check_mode

\* "commit = not module.check_mode"
ShouldCommit(check_mode) == ~check_mode

\* variant: the requests are submitted last to first
ReqAtReversed(reqs, k) == reqs[Len(reqs) - k + 1]

\* "for req in requests": the request of the k-th iteration
ReqAt(reqs, k) == reqs[k]

\* "diff = None" precedes the locked section in junos_firewall only
InitialDiff(m) == IF m = "junos_firewall" THEN None ELSE Unbound

Converged == ReplaceAll(staged0, requests) = committed0

NoRecord ==
    [outcome |-> None, changed |-> FALSE, converged |-> FALSE]

Record(outcome) ==
    [outcome |-> outcome, changed |-> result.changed, converged |-> Converged]

StartInvocation(m) ==
    /\ pc = MainSteps[1]
    /\ params = <<>>
    /\ requests = <<>>
    /\ i = 1
    /\ diff = InitialDiff(m)
    /\ result = [changed |-> FALSE, diff |-> None]
    /\ err = None
    /\ calls = <<>>
    /\ lockHeld = FALSE
    /\ lastReply = None
    /\ anyDiff = FALSE

TermIdle ==
    /\ term = <<>>
    /\ ele = <<>>
    /\ ti = 0
    /\ pass = 0
    /\ ele1 = <<>>
    /\ term0 = <<>>

ModuleInputs(m) ==
    {[aggregate |-> NoAggregate, params |-> p, check_mode |-> c, diff_mode |-> d] :
        p \in SingleParams(m) \cup {DefaultParams(m)},
        c \in BOOLEAN, d \in BOOLEAN}
    \cup
    {[aggregate |-> a, params |-> p, check_mode |-> c, diff_mode |-> TRUE] :
        a \in SeqsUpTo(AggregateEntries(m), MaxItems),
        p \in {DefaultParams(m),
               CHOOSE q \in SingleParams(m) : q.state = "present"},
        c \in BOOLEAN}

Init ==
    /\ mod \in Modules
    /\ module \in ModuleInputs(mod)
    /\ StartInvocation(mod)
    /\ staged = EmptyConfig
    /\ committed = EmptyConfig
    /\ staged0 = staged
    /\ committed0 = committed
    /\ run = 1
    /\ previous = NoRecord
    /\ TermIdle

\* AnsibleModule(...) accepts the arguments; params = to_param_list(module)
Validate ==
    /\ pc = "validate"
    /\ ArgumentsValid(mod, module)
    /\ params' = to_param_list(module)
    /\ pc' = After(pc)
    /\ UNCHANGED <<mod, module, requests, i, diff, result, err, calls,
                   lockHeld, lastReply, anyDiff, staged, committed, staged0, committed0,
                   run, previous>>
    /\ UNCHANGED termVars

\* AnsibleModule(...) rejects the arguments with fail_json
ValidateFails ==
    /\ pc = "validate"
    /\ ~ArgumentsValid(mod, module)
    /\ err' = "validation"
    /\ pc' = OnRaise(pc)
    /\ UNCHANGED <<mod, module, params, requests, i, diff, result, calls,
                   lockHeld, lastReply, anyDiff, staged, committed, staged0, committed0,
                   run, previous>>
    /\ UNCHANGED termVars

\* one iteration of "for param in params": resolve and append the request
BuildRequest ==
    /\ pc = "build"
    /\ LET param == Fallback(params[i], module.params)
           item  == param
       IN  /\ ~RequiredTogetherFails(mod, item)
           /\ params' = [params EXCEPT ![i] = param]
           /\ requests' = Append(requests, RequestTree(mod, item))
    /\ IF i = Len(params)
       THEN pc' = After(pc) /\ i' = 1
       ELSE pc' = pc /\ i' = i + 1
    /\ UNCHANGED <<mod, module, diff, result, err, calls, lockHeld, lastReply, anyDiff,
                   staged, committed, staged0, committed0, run, previous>>
    /\ UNCHANGED termVars

\* junos_pbr: fail_json "parameters are required together"
BuildFails ==
    /\ pc = "build"
    /\ LET param == Fallback(params[i], module.params)
       IN  /\ RequiredTogetherFails(mod, param)
           /\ params' = [params EXCEPT ![i] = param]
    /\ err' = "validation"
    /\ pc' = OnRaise(pc)
    /\ UNCHANGED <<mod, module, requests, i, diff, result, calls, lockHeld,
                   lastReply, anyDiff, staged, committed, staged0, committed0, run,
                   previous>>
    /\ UNCHANGED termVars

\* locked_config.__enter__: lock_configuration succeeds
Lock ==
    /\ pc = "lock"
    /\ calls' = Append(calls, <<"lock">>)
    /\ lockHeld' = TRUE
    /\ pc' = After(pc)
    /\ UNCHANGED <<mod, module, params, requests, i, diff, result, err,
                   lastReply, anyDiff, staged, committed, staged0, committed0, run,
                   previous>>
    /\ UNCHANGED termVars

\* lock_configuration fails: another session holds the lock; locked_config
\* still runs its unlock
LockFails ==
    /\ pc = "lock"
    /\ calls' = Append(calls, <<"lock">>)
    /\ err' = "lock_contention"
    /\ pc' = "unlock"
    /\ UNCHANGED <<mod, module, params, requests, i, diff, result, lockHeld,
                   lastReply, anyDiff, staged, committed, staged0, committed0, run,
                   previous>>
    /\ UNCHANGED termVars

\* one iteration of "for req in requests": the replace is staged and
\* load_config returns reply
LoadConfig(reply) ==
    /\ pc = "load"
    /\ LET req == ReqAt(requests, i)
       IN  /\ calls' = Append(calls, <<"replace", req>>)
           /\ staged' = Replace(staged, req)
    /\ diff' = AssignDiff(diff, reply)
    /\ lastReply' = reply
    /\ anyDiff' = (anyDiff \/ reply # "")
    /\ IF i = Len(requests)
       THEN pc' = After(pc) /\ i' = 1
       ELSE pc' = pc /\ i' = i + 1
    /\ UNCHANGED <<mod, module, params, requests, result, err, lockHeld,
                   committed, staged0, committed0, run, previous>>
    /\ UNCHANGED termVars

\* a transport whose replies are arbitrary
LoadConfigAny == \E reply \in Diffs : LoadConfig(reply)

\* a device whose reply is the difference of candidate and committed
LoadConfigDevice ==
    LoadConfig(get_diff(Replace(staged, ReqAt(requests, i)), committed))

\* load_config: the device rejects the tree, nothing is staged
LoadRejected ==
    /\ pc = "load"
    /\ calls' = Append(calls, <<"replace", ReqAt(requests, i)>>)
    /\ err' = "apply_rejected"
    /\ pc' = OnRaise(pc)
    /\ UNCHANGED <<mod, module, params, requests, i, diff, result, lockHeld,
                   lastReply, anyDiff, staged, committed, staged0, committed0, run,
                   previous>>
    /\ UNCHANGED termVars

Changed == [changed |-> TRUE,
            diff |-> IF module.diff_mode THEN diff ELSE None]

\* "if diff:" is false
DecideUnchanged ==
    /\ pc = "decide"
    /\ diff # Unbound
    /\ ~Truthy(diff)
    /\ pc' = After(pc)
    /\ UNCHANGED <<mod, module, params, requests, i, diff, result, err, calls,
                   lockHeld, lastReply, anyDiff, staged, committed, staged0, committed0,
                   run, previous>>
    /\ UNCHANGED termVars

\* "if diff:" and commit: commit_configuration succeeds
DecideCommit ==
    /\ pc = "decide"
    /\ Truthy(diff)
    /\ ShouldCommit(module.check_mode)
    /\ calls' = Append(calls, <<"commit">>)
    /\ committed' = staged
    /\ result' = Changed
    /\ pc' = After(pc)
    /\ UNCHANGED <<mod, module, params, requests, i, diff, err, lockHeld,
                   lastReply, anyDiff, staged, staged0, committed0, run, previous>>
    /\ UNCHANGED termVars

\* "if diff:" and commit: commit_configuration fails on the device
DecideCommitFails ==
    /\ pc = "decide"
    /\ Truthy(diff)
    /\ ShouldCommit(module.check_mode)
    /\ calls' = Append(calls, <<"commit">>)
    /\ err' = "commit_rejected"
    /\ pc' = OnRaise(pc)
    /\ UNCHANGED <<mod, module, params, requests, i, diff, result, lockHeld,
                   lastReply, anyDiff, staged, committed, staged0, committed0, run,
                   previous>>
    /\ UNCHANGED termVars

\* "if diff:" and not commit: discard_changes
DecideDiscard ==
    /\ pc = "decide"
    /\ Truthy(diff)
    /\ ~ShouldCommit(module.check_mode)
    /\ calls' = Append(calls, <<"discard">>)
    /\ staged' = committed
    /\ result' = Changed
    /\ pc' = After(pc)
    /\ UNCHANGED <<mod, module, params, requests, i, diff, err, lockHeld,
                   lastReply, anyDiff, committed, staged0, committed0, run, previous>>
    /\ UNCHANGED termVars

\* locked_config.__exit__: unlock_configuration, then the pending failure
\* (if any) continues to propagate
Unlock ==
    /\ pc = "unlock"
    /\ calls' = Append(calls, <<"unlock">>)
    /\ lockHeld' = FALSE
    /\ pc' = IF err = None THEN After(pc) ELSE "failed"
    /\ UNCHANGED <<mod, module, params, requests, i, diff, result, err,
                   lastReply, anyDiff, staged, committed, staged0, committed0, run,
                   previous>>
    /\ UNCHANGED termVars

\* module.exit_json(**result)
ExitJson ==
    /\ pc = "exit"
    /\ pc' = "done"
    /\ UNCHANGED <<mod, module, params, requests, i, diff, result, err, calls,
                   lockHeld, lastReply, anyDiff, staged, committed, staged0, committed0,
                   run, previous>>
    /\ UNCHANGED termVars

\* the failure reaches the caller
FailJson ==
    /\ pc = "failed"
    /\ pc' = "done"
    /\ UNCHANGED <<mod, module, params, requests, i, diff, result, err, calls,
                   lockHeld, lastReply, anyDiff, staged, committed, staged0, committed0,
                   run, previous>>
    /\ UNCHANGED termVars

\* the same invocation is run again against the device as it now is
RunAgain ==
    /\ pc = "done"
    /\ run < MaxRuns
    /\ run' = run + 1
    /\ pc' = MainSteps[1]
    /\ params' = <<>>
    /\ requests' = <<>>
    /\ i' = 1
    /\ diff' = InitialDiff(mod)
    /\ result' = [changed |-> FALSE, diff |-> None]
    /\ err' = None
    /\ calls' = <<>>
    /\ lockHeld' = FALSE
    /\ lastReply' = None
    /\ anyDiff' = FALSE
    /\ staged0' = staged
    /\ committed0' = committed
    /\ previous' = Record(IF err = None THEN "result" ELSE err)
    /\ UNCHANGED <<mod, module, staged, committed>>
    /\ UNCHANGED termVars

Next ==
    \/ Validate
    \/ ValidateFails
    \/ BuildRequest
    \/ BuildFails
    \/ Lock
    \/ LockFails
    \/ LoadConfigAny
    \/ LoadRejected
    \/ DecideUnchanged
    \/ DecideCommit
    \/ DecideCommitFails
    \/ DecideDiscard
    \/ Unlock
    \/ ExitJson
    \/ FailJson

Spec == Init /\ [][Next]_vars

NextDevice ==
    \/ Validate
    \/ ValidateFails
    \/ BuildRequest
    \/ BuildFails
    \/ Lock
    \/ LockFails
    \/ LoadConfigDevice
    \/ LoadRejected
    \/ DecideUnchanged
    \/ DecideCommit
    \/ DecideCommitFails
    \/ DecideDiscard
    \/ Unlock
    \/ ExitJson
    \/ FailJson
    \/ RunAgain

SpecDevice == Init /\ [][NextDevice]_vars

TypeOK == pc \in {"validate", "build", "lock", "load", "decide", "unlock",
                  "exit", "failed", "done"}

\* ------------------------------------------------------------ set_term_ele
DigitChars == <<"0", "1", "2", "3", "4", "5", "6", "7", "8", "9">>

\* str(n) for n >= 0: the decimal digits, most significant first
RECURSIVE str(_)
str(n) ==
    IF n < 10 THEN <<DigitChars[n + 1]>>
    ELSE str(n \div 10) \o <<DigitChars[(n % 10) + 1]>>

TermPrefix == <<"t", "e", "r", "m", "_">>

\* variant: one-based positions
AutoNameOneBased(idx) == TermPrefix \o str(idx + 1)

\* 'term_' + str(i)
AutoName(idx) == TermPrefix \o str(idx)

\* "if not term.get('name')": an absent or empty name
Unnamed(t) == t.name = None \/ t.name = <<>>

\* the name a caller may give a term
GivenName == <<"t", "e", "r", "m", "_", "1">>

TermInputs == {[name |-> n] : n \in {None, GivenName}}

\* the filter element built by map_obj_to_ele: its name leaf
AnchorChildren == <<[tag |-> "name", name |-> <<"f", "1">>]>>

InitTerms ==
    /\ mod = "junos_firewall"
    /\ module = [aggregate |-> NoAggregate,
                 params |-> DefaultParams("junos_firewall"),
                 check_mode |-> FALSE, diff_mode |-> FALSE]
    /\ pc = "done"
    /\ params = <<>>
    /\ requests = <<>>
    /\ i = 1
    /\ diff = None
    /\ result = [changed |-> FALSE, diff |-> None]
    /\ err = None
    /\ calls = <<>>
    /\ lockHeld = FALSE
    /\ lastReply = None
    /\ anyDiff = FALSE
    /\ staged = EmptyConfig
    /\ committed = EmptyConfig
    /\ staged0 = EmptyConfig
    /\ committed0 = EmptyConfig
    /\ run = 1
    /\ previous = NoRecord
    /\ term \in UNION {[1..n -> TermInputs] : n \in 0..MaxTerms}
    /\ term0 = term
    /\ ele = AnchorChildren
    /\ ti = 0
    /\ pass = 1
    /\ ele1 = <<>>

\* set_term_ele returns tree: the first mapping's tree is kept and the same
\* list is mapped again onto a fresh anchor; the second mapping's tree stays
Returned(tree) ==
    IF pass = 1
    THEN /\ ele1' = tree
         /\ ele' = AnchorChildren
         /\ ti' = 0
         /\ pass' = 2
    ELSE /\ ele1' = ele1
         /\ ele' = tree
         /\ ti' = Len(term)
         /\ pass' = 3

\* "if not term: return ele"
SetTermEleNoTerms ==
    /\ pass \in {1, 2}
    /\ term = <<>>
    /\ Returned(ele)
    /\ UNCHANGED <<term, term0>>
    /\ UNCHANGED mainVars

\* one iteration of "for i, term in enumerate(term)"; after the last one,
\* "return ele"
SetTermEleStep ==
    /\ pass \in {1, 2}
    /\ term # <<>>
    /\ ti < Len(term)
    /\ LET t     == term[ti + 1]
           named == IF Unnamed(t) THEN [t EXCEPT !.name = AutoName(ti)]
                    ELSE t
           tree  == Append(ele, [tag |-> "term", name |-> named.name])
       IN  /\ term' = [term EXCEPT ![ti + 1] = named]
           /\ IF ti + 1 = Len(term)
              THEN Returned(tree)
              ELSE /\ ele' = tree
                   /\ ti' = ti + 1
                   /\ UNCHANGED <<ele1, pass>>
    /\ UNCHANGED term0
    /\ UNCHANGED mainVars

NextTerms ==
    \/ SetTermEleNoTerms
    \/ SetTermEleStep

SpecTerms == InitTerms /\ [][NextTerms]_vars

\* ----------------------------------------------------------------- claims
Count(kind) == Cardinality({k \in DOMAIN calls : calls[k][1] = kind})

Positions(kind) == {k \in DOMAIN calls : calls[k][1] = kind}

ReturnedResult == pc = "done" /\ err = None

\* the invocation is past the with block without a pending failure
Decided == pc \in {"unlock", "exit", "done"} /\ err = None

\* C1: an invocation that entered the locked section has called unlock
\* exactly once, as its last transport call, when it leaves main() (with a
\* result, after a rejected replace, after a failed commit, after a failed
\* lock), and it never holds the lock at that point.
C1_LockReleased ==
    /\ Count("unlock") <= 1
    /\ (pc \in {"exit", "failed", "done"} /\ Count("lock") > 0)
         => /\ Count("unlock") = 1
            /\ calls[Len(calls)] = <<"unlock">>
            /\ ~lockHeld

C1_Witness ==
    /\ pc = "done"
    /\ err = "commit_rejected"
    /\ Count("unlock") = 1
    /\ ~lockHeld

\* C2: in check mode commit_configuration is never called; when the decision
\* step saw a diff, discard_changes was called once and the result reports
\* changed = true.
C2_CheckModeNeverCommits ==
    module.check_mode =>
        /\ Count("commit") = 0
        /\ (Decided /\ Truthy(diff))
             => /\ Count("discard") = 1
                /\ result.changed

C2_Witness ==
    /\ ReturnedResult
    /\ module.check_mode
    /\ Truthy(diff)
    /\ Count("discard") = 1
    /\ result.changed

\* C4 as stated: if some replace of the batch returned a non-empty diff, the
\* invocation that returns a result reports changed = true and has called
\* commit or discard.
C4_AnyDiffMeansChanged ==
    (ReturnedResult /\ anyDiff)
        => /\ result.changed
           /\ Count("commit") + Count("discard") >= 1

\* C4 amended: the decision step uses the diff returned by the last replace
\* of the batch: the invocation reports changed = true, and calls commit or
\* discard, exactly when that last diff is non-empty.
C4_LastDiffDecides ==
    (Decided /\ pc # "unlock") =>
        /\ Count("replace") = Len(requests)
        /\ result.changed = (lastReply # "")
        /\ Count("commit") + Count("discard")
             = (IF lastReply # "" THEN 1 ELSE 0)

C4_Witness ==
    /\ ReturnedResult
    /\ Count("replace") = 3
    /\ anyDiff
    /\ lastReply = ""
    /\ ~result.changed

\* C5: after a rejected replace no further tree is submitted, neither commit
\* nor discard is called, unlock is called exactly once and the invocation
\* ends in the propagated failure, not in a result.
C5_RejectedAbortsBatch ==
    err = "apply_rejected" =>
        /\ Count("replace") = i
        /\ Count("commit") = 0
        /\ Count("discard") = 0
        /\ result.changed = FALSE
        /\ pc \in {"unlock", "failed", "done"}
        /\ pc \in {"failed", "done"} =>
              /\ Count("unlock") = 1
              /\ calls[Len(calls)] = <<"unlock">>
        /\ ~ReturnedResult

C5_Witness ==
    /\ pc = "done"
    /\ err = "apply_rejected"
    /\ Len(requests) = 3
    /\ i = 2
    /\ Count("replace") = 2
    /\ Count("unlock") = 1

\* C6: with no diff at the decision step neither commit nor discard is
\* called, the lock is released and changed = false is returned; with a diff
\* in apply mode commit is called exactly once, after every replace and
\* before unlock, discard is never called, and a returned result reports
\* changed = true.
C6_DecisionStep ==
    /\ (ReturnedResult /\ ~Truthy(diff))
         => /\ Count("commit") = 0
            /\ Count("discard") = 0
            /\ Count("unlock") = 1
            /\ ~lockHeld
            /\ result.changed = FALSE
    /\ (pc \in {"unlock", "exit", "failed", "done"}
        /\ err \in {None, "commit_rejected"}
        /\ Truthy(diff) /\ ~module.check_mode)
         => /\ Count("commit") = 1
            /\ Count("discard") = 0
            /\ Count("replace") = Len(requests)
            /\ \A c \in Positions("commit") :
                  /\ \A r \in Positions("replace") : r < c
                  /\ \A u \in Positions("unlock") : c < u
            /\ ReturnedResult => result.changed

C6_Witness ==
    /\ ReturnedResult
    /\ ~module.check_mode
    /\ Truthy(diff)
    /\ Len(requests) = 2
    /\ calls[Len(calls) - 1] = <<"commit">>
    /\ result.changed

\* C7 as stated: no request is built for a resolved junos_pbr item of state
\* present that has exactly one of address and next_hop.
C7_PairRequiredTogether ==
    mod = "junos_pbr" =>
        \A k \in 1..Len(requests) :
            params[k].state = "present"
                => (Truthy(params[k].address) <=> Truthy(params[k].next_hop))

\* C8: a validation failure (of the arguments or of a coupled pair) happens
\* with no transport call made: no lock, replace, commit, discard or unlock.
C8_ValidationBeforeTransport ==
    err = "validation" =>
        /\ calls = <<>>
        /\ ~lockHeld
        /\ staged = staged0
        /\ committed = committed0

C8_Witness ==
    /\ pc = "done"
    /\ err = "validation"
    /\ mod = "junos_pbr"
    /\ Len(requests) = 1
    /\ Len(params) = 3
    /\ calls = <<>>

\* C10: the lock is requested at most once, as the first transport call;
\* replace, commit and discard are only called while the lock is held, before
\* the unlock; the replaces are submitted in the order of the parameter
\* sets, one per set.
C10_SingleCriticalSection ==
    /\ Count("lock") <= 1
    /\ \A k \in DOMAIN calls :
          calls[k][1] \in {"replace", "commit", "discard"}
            => /\ calls[1] = <<"lock">>
               /\ \A u \in Positions("unlock") : k < u
               /\ err # "lock_contention"
    /\ pc \in {"load", "decide"} => lockHeld
    /\ Count("replace") <= Len(params)
    /\ \A k \in 1..Count("replace") :
          calls[k + 1] = <<"replace", RequestTree(mod, params[k])>>
    /\ (Decided /\ pc # "unlock") => Count("replace") = Len(params)

C10_Witness ==
    /\ ReturnedResult
    /\ Len(params) = 3
    /\ Count("replace") = 3
    /\ calls[2] # calls[3]
    /\ calls[3] # calls[4]
    /\ Count("commit") = 1

\* C3: against a device whose diff is non-empty exactly when candidate and
\* committed configuration differ, an invocation that returns a result
\* reports changed = false when the device was already converged and
\* changed = true when it was not, and in apply mode the run after a run
\* that returned a result reports changed = false.
C3_Idempotence ==
    ReturnedResult =>
        /\ result.changed = ~Converged
        /\ (previous.outcome = "result" /\ ~module.check_mode)
             => result.changed = FALSE

C3_Witness ==
    /\ ReturnedResult
    /\ ~module.check_mode
    /\ Len(requests) = 3
    /\ previous.outcome = "result"
    /\ previous.changed
    /\ ~previous.converged
    /\ ~result.changed
    /\ Converged

\* the decimal value of a digit sequence
DigitValue(c) == CHOOSE d \in 0..9 : DigitChars[d + 1] = c

RECURSIVE Decimal(_)
Decimal(ds) ==
    IF Len(ds) = 1 THEN DigitValue(ds[1])
    ELSE 10 * Decimal(SubSeq(ds, 1, Len(ds) - 1)) + DigitValue(ds[Len(ds)])

AllUnnamed == \A k \in DOMAIN term0 : Unnamed(term0[k])

TermNodes(tree) == SubSeq(tree, Len(AnchorChildren) + 1, Len(tree))

\* C9: for a list of unnamed terms the term appended at zero-based position
\* p is named "term_" followed by the decimal digits of p, so the names are
\* pairwise distinct, and mapping the same list again gives the same names;
\* for an empty list the anchor tree is returned as it was.
C9_TermAutoNaming ==
    AllUnnamed =>
        LET nodes == TermNodes(ele)
        IN  /\ \A k \in DOMAIN nodes :
                  LET n == nodes[k].name
                  IN  /\ Len(n) > Len(TermPrefix)
                      /\ SubSeq(n, 1, Len(TermPrefix)) = TermPrefix
                      /\ Decimal(SubSeq(n, Len(TermPrefix) + 1, Len(n)))
                           = k - 1
                      /\ term[k].name = n
            /\ \A k, l \in DOMAIN nodes :
                  k # l => nodes[k].name # nodes[l].name
            /\ pass = 3 => /\ ele = ele1
                           /\ Len(nodes) = Len(term0)
            /\ (pass = 3 /\ term0 = <<>>) => ele = AnchorChildren

C9_Witness ==
    /\ AllUnnamed
    /\ pass = 3
    /\ Len(term0) = MaxTerms
    /\ ele[Len(ele)].name = <<"t", "e", "r", "m", "_", "1", "0">>
    /\ ele = ele1

====
